---- MODULE Spec2Model ----
(***************************************************************************)
(* A model of amixer.cpp: the percentage <-> native-unit volume            *)
(* controllers (VolumeControllerDb / Linear / Dummy), the per-element      *)
(* AMVolume (volume and balance over a left, a right and a mono            *)
(* controller) and the AMixer registry (construction and destruction).     *)
(*                                                                         *)
(* The ALSA mixer is the environment.  Per channel selector it holds one   *)
(* native value (hw), in the unit of the controller kind that addresses    *)
(* it, and a flag saying whether a read of that channel succeeds (readOk). *)
(* A write stores the written native value.                                *)
(***************************************************************************)
EXTENDS Integers, Sequences, FiniteSets, TLC

VARIABLES
    ctl,          \* SpecCtl: the VolumeController under test
    vol,          \* SpecChan: the AMVolume under test
    hw,           \* hardware: channel selector -> native value
    readOk,       \* hardware: channel selector -> does a read succeed
    last,         \* the last operation: its name, argument, result, writes
    pc,           \* SpecReg: position of the AMixer life cycle
    card,         \* SpecReg: AMixer::AMixer's local variable card
    numCards,     \* SpecReg: number of sound cards of the machine
    outcome,      \* SpecReg: what happened to each visited card
    mixers,       \* SpecReg: AMixer::mixers
    channelsList, \* SpecReg: AMixer::channelsList
    closes        \* SpecReg: snd_mixer_close calls per card's handle

vars == <<ctl, vol, hw, readOk, last, pc, card, numCards, outcome, mixers,
          channelsList, closes>>

ctlVars == <<ctl, vol, hw, readOk, last>>
regVars == <<pc, card, numCards, outcome, mixers, channelsList, closes>>

----------------------------------------------------------------------------
(* Bounds of the model *)

MaxCtlRange == 36   \* largest native range of a controller in SpecCtl
MaxChanRange == 3   \* largest dB range of an element in SpecChan
MaxCards == 2       \* most sound cards
MaxElems == 2       \* most mixer elements per card
MaxCreateRange == 2 \* widest range of an element given to create

(* Program constants *)

PctMax == 100       \* percentages are 0..100
BalMax == 100       \* balances are -100..100

Chan == {"FRONT_LEFT", "FRONT_RIGHT", "MONO"}

----------------------------------------------------------------------------
(* Arithmetic of <algorithm> and <cmath> *)

Abs(x) == IF x < 0 THEN -x ELSE x

Max(a, b) == IF a > b THEN a ELSE b

Clamp(x, lo, hi) == IF x < lo THEN lo ELSE IF x > hi THEN hi ELSE x

\* lround of the exact quotient num / den, den > 0: halves go away from zero.
RoundHalfAway(num, den) ==
    IF num >= 0 THEN (2 * num + den) \div (2 * den)
                ELSE -((2 * (-num) + den) \div (2 * den))

(***************************************************************************)
(* The code computes in binary64.  A product whose exact value is k + 1/2  *)
(* can come out just below k + 1/2, and lround then gives k, not k + 1.    *)
(* The tables list every argument for which that happens (ranges up to     *)
(* 130, percentages 0..100); everywhere else lround of the double equals   *)
(* the rounding of the exact value.                                        *)
(***************************************************************************)

\* <<range, volume>> with lround(clamp(volume/100.0, 0.0, 1.0) * range) one
\* below the exact rounding, e.g. 0.58 * 25 = 14.499999999999998.
ScaleTiesDown ==
    {<<25, 58>>, <<45, 70>>, <<50, 29>>, <<50, 57>>, <<75, 82>>, <<85, 70>>,
     <<90, 35>>}

\* <<range, n>> with lround(double(n) / double(range) * 100.0) one below the
\* exact rounding, e.g. 23.0 / 40.0 * 100.0 = 57.49999999999999.
PercentTiesDown == {<<40, 23>>, <<80, 46>>, <<120, 69>>}

\* <<volume, |balance|>> with lround(volume * (1.0 - |balance| / 100.0)) one
\* below the exact rounding (AMVolume::setVolume).
SetVolumeTiesDown ==
    {<<5, 90>>, <<15, 90>>, <<25, 34>>, <<25, 78>>, <<25, 90>>, <<30, 55>>,
     <<35, 90>>, <<45, 30>>, <<45, 90>>, <<50, 55>>, <<50, 67>>, <<50, 79>>,
     <<50, 81>>, <<50, 89>>, <<50, 91>>, <<50, 93>>, <<55, 90>>, <<65, 90>>,
     <<70, 55>>, <<75, 34>>, <<75, 66>>, <<75, 78>>, <<75, 90>>, <<85, 30>>,
     <<85, 90>>, <<90, 55>>, <<90, 65>>, <<95, 90>>}

\* <<volume, |balance|>> with lround(volume * ((100.0 - |balance|) / 100.0))
\* one below the exact rounding (AMVolume::setBalance), e.g.
\* 45 * 0.7 = 31.499999999999996.
SetBalanceTiesDown ==
    {<<25, 42>>, <<45, 30>>, <<50, 43>>, <<50, 71>>, <<75, 18>>, <<85, 30>>,
     <<90, 65>>}

\* Mutant of ScaleToNative: the product is truncated, not rounded.
ScaleToNative_Truncates(volume, range) ==
    (Clamp(volume, 0, PctMax) * range) \div 100

\* lround(volumeNorm * range), volumeNorm = clamp(volume / 100.0, 0.0, 1.0)
ScaleToNative(volume, range) ==
    LET v == Clamp(volume, 0, PctMax)
        exact == RoundHalfAway(v * range, 100)
    IN  IF <<range, v>> \in ScaleTiesDown THEN exact - 1 ELSE exact

\* clamp(int(lround(double(n) / double(range) * 100.0)), 0, 100)
NativeToPercent(n, range) ==
    LET exact == RoundHalfAway(100 * n, range)
        r == IF <<range, n>> \in PercentTiesDown THEN exact - 1 ELSE exact
    IN  Clamp(r, 0, PctMax)

----------------------------------------------------------------------------
(* Mixer elements as the range queries see them *)

NullElem ==
    [null |-> TRUE, dbOk |-> FALSE, dbMin |-> 0, dbMax |-> 0,
     volOk |-> FALSE, volMin |-> 0, volMax |-> 0]

Elem(dbOk, dbMin, dbMax, volOk, volMin, volMax) ==
    [null |-> FALSE, dbOk |-> dbOk, dbMin |-> dbMin, dbMax |-> dbMax,
     volOk |-> volOk, volMin |-> volMin, volMax |-> volMax]

----------------------------------------------------------------------------
(* VolumeController and its three subclasses *)

\* The constructor of VolumeControllerDb: the range cache is 0, 0, 0 for a
\* null element or a failed query.
VolumeControllerDb(elem, ch) ==
    IF ~elem.null /\ elem.dbOk
    THEN [kind |-> "Db", null |-> elem.null, channel |-> ch,
          min |-> elem.dbMin, max |-> elem.dbMax,
          range |-> elem.dbMax - elem.dbMin]
    ELSE [kind |-> "Db", null |-> elem.null, channel |-> ch,
          min |-> 0, max |-> 0, range |-> 0]

VolumeControllerLinear(elem, ch) ==
    IF ~elem.null /\ elem.volOk
    THEN [kind |-> "Linear", null |-> elem.null, channel |-> ch,
          min |-> elem.volMin, max |-> elem.volMax,
          range |-> elem.volMax - elem.volMin]
    ELSE [kind |-> "Linear", null |-> elem.null, channel |-> ch,
          min |-> 0, max |-> 0, range |-> 0]

VolumeControllerDummy(elem, ch) ==
    [kind |-> "Dummy", null |-> elem.null, channel |-> ch,
     min |-> 0, max |-> 0, range |-> 0]

\* Mutant of VolumeControllerDb_setVolume: the range is not looked at.
VolumeControllerDb_setVolume_NoRangeCheck(c, volume) ==
    IF c.null THEN << >>
    ELSE <<c.min + ScaleToNative(volume, c.range)>>

\* VolumeControllerDb::setVolume as the write it issues: << >> for none,
\* <<dB>> for snd_mixer_selem_set_playback_dB(mixer_elem, channel, dB, 0).
VolumeControllerDb_setVolume(c, volume) ==
    IF c.null \/ c.range <= 0 THEN << >>
    ELSE <<c.min + ScaleToNative(volume, c.range)>>

\* VolumeControllerDb::getVolume; value is what the hardware holds for the
\* channel and ok whether snd_mixer_selem_get_playback_dB returns 0.
VolumeControllerDb_getVolume(c, value, ok) ==
    IF c.null \/ c.range <= 0 THEN 0
    ELSE IF ~ok THEN 0
    ELSE NativeToPercent(value - c.min, c.range)

VolumeControllerLinear_setVolume(c, volume) ==
    IF c.null \/ c.range <= 0 THEN << >>
    ELSE <<c.min + ScaleToNative(volume, c.range)>>

VolumeControllerLinear_getVolume(c, value, ok) ==
    IF c.null \/ c.range <= 0 THEN 0
    ELSE IF ~ok THEN 0
    ELSE NativeToPercent(value - c.min, c.range)

VolumeControllerDummy_setVolume(c, volume) == << >>

VolumeControllerDummy_getVolume(c, value, ok) == 0

\* virtual dispatch of VolumeController::setVolume / getVolume
CtlSetVolume(c, volume) ==
    CASE c.kind = "Db" -> VolumeControllerDb_setVolume(c, volume)
      [] c.kind = "Linear" -> VolumeControllerLinear_setVolume(c, volume)
      [] OTHER -> VolumeControllerDummy_setVolume(c, volume)

CtlGetVolume(c, h, ok) ==
    CASE c.kind = "Db" -> VolumeControllerDb_getVolume(c, h[c.channel], ok[c.channel])
      [] c.kind = "Linear" -> VolumeControllerLinear_getVolume(c, h[c.channel], ok[c.channel])
      [] OTHER -> VolumeControllerDummy_getVolume(c, h[c.channel], ok[c.channel])

\* The hardware after the write w (<< >> or <<native>>) to channel ch.
HwWrite(h, ch, w) == IF w = << >> THEN h ELSE [h EXCEPT ![ch] = w[1]]

\* VolumeController::create
\* Mutant of create: the linear range is asked for first.
create_LinearFirst(elem, ch) ==
    IF elem.null THEN VolumeControllerDummy(elem, ch)
    ELSE IF elem.volOk /\ elem.volMax > elem.volMin
         THEN VolumeControllerLinear(elem, ch)
    ELSE IF elem.dbOk /\ elem.dbMax > elem.dbMin
         THEN VolumeControllerDb(elem, ch)
    ELSE VolumeControllerDummy(elem, ch)

create(elem, ch) ==
    IF elem.null THEN VolumeControllerDummy(elem, ch)
    ELSE IF elem.dbOk /\ elem.dbMax > elem.dbMin
         THEN VolumeControllerDb(elem, ch)
    ELSE IF elem.volOk /\ elem.volMax > elem.volMin
         THEN VolumeControllerLinear(elem, ch)
    ELSE VolumeControllerDummy(elem, ch)

----------------------------------------------------------------------------
(* Records of the last operation *)

NoCalls == [ch \in Chan |-> << >>]

Op(name, arg, ret, passed, written) ==
    [op |-> name, arg |-> arg, ret |-> ret, passed |-> passed,
     written |-> written]

NoOp == Op("none", 0, 0, NoCalls, {})

RegIdle ==
    /\ pc = "idle"
    /\ card = -1
    /\ numCards = 0
    /\ outcome = << >>
    /\ mixers = << >>
    /\ channelsList = << >>
    /\ closes = << >>

----------------------------------------------------------------------------
(* SpecCtl: one VolumeController over one hardware channel *)

\* Elements whose dB and linear ranges are -3 .. r - 3, queries succeeding
\* or failing
CtlElems ==
    {Elem(ok, -3, r - 3, ok, -3, r - 3) :
        ok \in BOOLEAN, r \in -1 .. MaxCtlRange} \cup {NullElem}

CtlSet ==
    {VolumeControllerDb(e, "MONO") : e \in CtlElems}
    \cup {VolumeControllerLinear(e, "MONO") : e \in CtlElems}
    \cup {VolumeControllerDummy(e, "MONO") : e \in CtlElems}

\* Percentages passed to setVolume: all of 0..100 and some outside
CtlArgs == -2 .. PctMax + 2

\* The native values the hardware can hold for a controller's channel
NativeValues(c) == IF c.range > 0 THEN c.min .. c.max ELSE {c.min}

InitCtl ==
    /\ ctl \in CtlSet
    /\ vol = << >>
    /\ \E n \in NativeValues(ctl) :
          hw = [ch \in Chan |-> IF ch = ctl.channel THEN n ELSE 0]
    /\ \E b \in BOOLEAN :
          readOk = [ch \in Chan |-> IF ch = ctl.channel THEN b ELSE TRUE]
    /\ last = NoOp
    /\ RegIdle

CtlDoSetVolume(p) ==
    LET w == CtlSetVolume(ctl, p)
    IN  /\ hw' = HwWrite(hw, ctl.channel, w)
        /\ last' = Op("setVolume", p, 0,
                      [NoCalls EXCEPT ![ctl.channel] = <<p>>],
                      IF w = << >> THEN {} ELSE {ctl.channel})
        /\ UNCHANGED <<ctl, vol, readOk>>
        /\ UNCHANGED regVars

CtlDoGetVolume ==
    /\ last' = Op("getVolume", 0, CtlGetVolume(ctl, hw, readOk), NoCalls, {})
    /\ UNCHANGED <<ctl, vol, hw, readOk>>
    /\ UNCHANGED regVars

NextCtl ==
    \/ \E p \in CtlArgs : CtlDoSetVolume(p)
    \/ CtlDoGetVolume

SpecCtl == InitCtl /\ [][NextCtl]_vars

----------------------------------------------------------------------------
(* SpecCreate: VolumeController::create, then the controller it returned *)

\* The elements handed to create: each range query succeeds or fails, and
\* leaves a range that is reversed, empty or positive, in every combination;
\* and the null element.  0 lies in every positive range.
CreateElems ==
    {Elem(dbOk, -1, dr - 1, volOk, 0, vr) :
        dbOk \in BOOLEAN, dr \in -1 .. MaxCreateRange,
        volOk \in BOOLEAN, vr \in -1 .. MaxCreateRange} \cup {NullElem}

CreateArgs == {-2, 0, 50, PctMax}

\* c is a controller, not the empty slot
Constructed(c) == DOMAIN c # {}

InitCreate ==
    /\ ctl = << >>
    /\ vol = << >>
    /\ hw = [ch \in Chan |-> 0]
    /\ \E b \in BOOLEAN : readOk = [ch \in Chan |-> b]
    /\ last = NoOp
    /\ RegIdle

CtlCreate(elem, ch) ==
    /\ ~Constructed(ctl)
    /\ ctl' = create(elem, ch)
    /\ last' = Op("create", elem, 0, NoCalls, {})
    /\ UNCHANGED <<vol, hw, readOk>>
    /\ UNCHANGED regVars

NextCreate ==
    \/ \E elem \in CreateElems, ch \in Chan : CtlCreate(elem, ch)
    \/ Constructed(ctl) /\ \E p \in CreateArgs : CtlDoSetVolume(p)
    \/ Constructed(ctl) /\ CtlDoGetVolume

SpecCreate == InitCreate /\ [][NextCreate]_vars

----------------------------------------------------------------------------
(* AMVolume: one mixer element, three controllers *)

\* AMVolume::AMVolume; l and r are what snd_mixer_selem_has_playback_channel
\* says of FRONT_LEFT and FRONT_RIGHT.
AMVolume(c, elem, l, r) ==
    [card |-> c, hasLeft |-> l, hasRight |-> r,
     leftVolumeController |-> create(elem, "FRONT_LEFT"),
     rightVolumeController |-> create(elem, "FRONT_RIGHT"),
     monoVolumeController |-> create(elem, "MONO")]

\* AMVolume::getBalance
AMVolume_getBalance(v, h, ok) ==
    IF ~v.hasLeft \/ ~v.hasRight THEN 0
    ELSE LET left == CtlGetVolume(v.leftVolumeController, h, ok)
             right == CtlGetVolume(v.rightVolumeController, h, ok)
         IN  right - left

\* AMVolume::getVolume
AMVolume_getVolume(v, h, ok) ==
    LET left == CtlGetVolume(v.leftVolumeController, h, ok)
        right == CtlGetVolume(v.rightVolumeController, h, ok)
        mono == CtlGetVolume(v.monoVolumeController, h, ok)
    IN  Max(Max(left, right), mono)

\* lround(volume * balanceNorm), balanceNorm = 1.0 - (abs(balance) / 100.0)
SetVolumeQuietSide(volume, balance) ==
    LET exact == RoundHalfAway(volume * (100 - Abs(balance)), 100)
    IN  IF <<volume, Abs(balance)>> \in SetVolumeTiesDown
        THEN exact - 1 ELSE exact

\* lround(volume * balanceNorm), balanceNorm = (100.0 - abs(balance)) / 100.0
SetBalanceQuietSide(volume, balance) ==
    LET exact == RoundHalfAway(volume * (100 - Abs(balance)), 100)
    IN  IF <<volume, Abs(balance)>> \in SetBalanceTiesDown
        THEN exact - 1 ELSE exact

\* The percentages the three controllers are called with: << >> for a
\* controller that is not called, <<p>> for setVolume(p).
Calls(l, r, m) ==
    [ch \in Chan |-> CASE ch = "FRONT_LEFT" -> l
                       [] ch = "FRONT_RIGHT" -> r
                       [] OTHER -> m]

\* Mutant of AMVolume_setVolume: the balanced branch forgets the right side.
AMVolume_setVolume_LeftOnly(v, h, ok, volume0) ==
    LET volume == Clamp(volume0, 0, PctMax)
    IN  IF v.hasLeft /\ v.hasRight
        THEN LET balance == AMVolume_getBalance(v, h, ok)
             IN  IF balance < 0
                 THEN Calls(<<volume>>,
                            <<SetVolumeQuietSide(volume, balance)>>, << >>)
                 ELSE IF balance > 0
                 THEN Calls(<<SetVolumeQuietSide(volume, balance)>>,
                            <<volume>>, << >>)
                 ELSE Calls(<<volume>>, << >>, << >>)
        ELSE Calls(<< >>, << >>, <<volume>>)

\* Mutant of AMVolume_setVolume: the argument is not clamped.
AMVolume_setVolume_NoClamp(v, h, ok, volume) ==
    IF v.hasLeft /\ v.hasRight
    THEN LET balance == AMVolume_getBalance(v, h, ok)
         IN  IF balance < 0
             THEN Calls(<<volume>>,
                        <<SetVolumeQuietSide(volume, balance)>>, << >>)
             ELSE IF balance > 0
             THEN Calls(<<SetVolumeQuietSide(volume, balance)>>,
                        <<volume>>, << >>)
             ELSE Calls(<<volume>>, <<volume>>, << >>)
    ELSE Calls(<< >>, << >>, <<volume>>)

\* AMVolume::setVolume as the calls it makes on its controllers
AMVolume_setVolume(v, h, ok, volume0) ==
    LET volume == Clamp(volume0, 0, PctMax)
    IN  IF v.hasLeft /\ v.hasRight
        THEN LET balance == AMVolume_getBalance(v, h, ok)
             IN  IF balance < 0
                 THEN Calls(<<volume>>,
                            <<SetVolumeQuietSide(volume, balance)>>, << >>)
                 ELSE IF balance > 0
                 THEN Calls(<<SetVolumeQuietSide(volume, balance)>>,
                            <<volume>>, << >>)
                 ELSE Calls(<<volume>>, <<volume>>, << >>)
        ELSE Calls(<< >>, << >>, <<volume>>)

\* Mutant of AMVolume_setBalance: the stereo check is missing.
AMVolume_setBalance_NoStereoCheck(v, h, ok, balance0) ==
    LET balance == Clamp(balance0, -BalMax, BalMax)
        volume == AMVolume_getVolume(v, h, ok)
    IN  IF balance < 0
        THEN Calls(<<volume>>,
                   <<SetBalanceQuietSide(volume, balance)>>, << >>)
        ELSE IF balance > 0
        THEN Calls(<<SetBalanceQuietSide(volume, balance)>>,
                   <<volume>>, << >>)
        ELSE Calls(<<volume>>, <<volume>>, << >>)

\* Mutant of AMVolume_setBalance: the reference level is the left side's, not
\* getVolume().
AMVolume_setBalance_LeftLevel(v, h, ok, balance0) ==
    IF ~v.hasLeft \/ ~v.hasRight THEN NoCalls
    ELSE LET balance == Clamp(balance0, -BalMax, BalMax)
             volume == CtlGetVolume(v.leftVolumeController, h, ok)
         IN  IF balance < 0
             THEN Calls(<<volume>>,
                        <<SetBalanceQuietSide(volume, balance)>>, << >>)
             ELSE IF balance > 0
             THEN Calls(<<SetBalanceQuietSide(volume, balance)>>,
                        <<volume>>, << >>)
             ELSE Calls(<<volume>>, <<volume>>, << >>)

\* AMVolume::setBalance as the calls it makes on its controllers
AMVolume_setBalance(v, h, ok, balance0) ==
    IF ~v.hasLeft \/ ~v.hasRight THEN NoCalls
    ELSE LET balance == Clamp(balance0, -BalMax, BalMax)
             volume == AMVolume_getVolume(v, h, ok)
         IN  IF balance < 0
             THEN Calls(<<volume>>,
                        <<SetBalanceQuietSide(volume, balance)>>, << >>)
             ELSE IF balance > 0
             THEN Calls(<<SetBalanceQuietSide(volume, balance)>>,
                        <<volume>>, << >>)
             ELSE Calls(<<volume>>, <<volume>>, << >>)

\* The controller of v that addresses channel ch
ControllerOf(v, ch) ==
    CASE ch = "FRONT_LEFT" -> v.leftVolumeController
      [] ch = "FRONT_RIGHT" -> v.rightVolumeController
      [] OTHER -> v.monoVolumeController

\* The write the controller of channel ch issues for the call calls[ch]
WriteOf(v, calls, ch) ==
    IF calls[ch] = << >> THEN << >>
    ELSE CtlSetVolume(ControllerOf(v, ch), calls[ch][1])

\* The hardware after the controllers have carried out the calls
AfterCalls(v, h, calls) ==
    [ch \in Chan |-> IF WriteOf(v, calls, ch) = << >> THEN h[ch]
                     ELSE WriteOf(v, calls, ch)[1]]

WrittenBy(v, calls) == {ch \in Chan : WriteOf(v, calls, ch) # << >>}

----------------------------------------------------------------------------
(* SpecChan: one AMVolume over the three hardware channels *)

\* dB range -r .. 0 for r in 1 .. MaxChanRange; an empty dB range and a
\* linear range 1 .. 3; an empty dB range and no linear range.
ChanElems ==
    {Elem(TRUE, -r, 0, TRUE, 0, 2) : r \in 1 .. MaxChanRange}
    \cup {Elem(TRUE, -2, -2, TRUE, 1, 3),
          Elem(TRUE, 0, 0, FALSE, 0, 0)}

ChanVolArgs == {-10, 0, 25, 30, 50, 75, 100, 150}

ChanBalArgs == {-150, -100, -43, -42, -30, 0, 30, 43, 100, 150}

InitChan ==
    /\ ctl = << >>
    /\ \E e \in ChanElems, l \in BOOLEAN, r \in BOOLEAN :
          vol = AMVolume(0, e, l, r)
    /\ hw \in [Chan -> NativeValues(vol.monoVolumeController)]
    /\ readOk \in [Chan -> BOOLEAN]
    /\ last = NoOp
    /\ RegIdle

ChanSetVolume(volume) ==
    LET calls == AMVolume_setVolume(vol, hw, readOk, volume)
    IN  /\ hw' = AfterCalls(vol, hw, calls)
        /\ last' = Op("setVolume", volume, 0, calls, WrittenBy(vol, calls))
        /\ UNCHANGED <<ctl, vol, readOk>>
        /\ UNCHANGED regVars

ChanSetBalance(balance) ==
    LET calls == AMVolume_setBalance(vol, hw, readOk, balance)
    IN  /\ hw' = AfterCalls(vol, hw, calls)
        /\ last' = Op("setBalance", balance, 0, calls, WrittenBy(vol, calls))
        /\ UNCHANGED <<ctl, vol, readOk>>
        /\ UNCHANGED regVars

ChanGetVolume ==
    /\ last' = Op("getVolume", 0, AMVolume_getVolume(vol, hw, readOk),
                  NoCalls, {})
    /\ UNCHANGED <<ctl, vol, hw, readOk>>
    /\ UNCHANGED regVars

ChanGetBalance ==
    /\ last' = Op("getBalance", 0, AMVolume_getBalance(vol, hw, readOk),
                  NoCalls, {})
    /\ UNCHANGED <<ctl, vol, hw, readOk>>
    /\ UNCHANGED regVars

NextChan ==
    \/ \E volume \in ChanVolArgs : ChanSetVolume(volume)
    \/ \E balance \in ChanBalArgs : ChanSetBalance(balance)
    \/ ChanGetVolume
    \/ ChanGetBalance

SpecChan == InitChan /\ [][NextChan]_vars

----------------------------------------------------------------------------
(* SpecReg: AMixer, its constructor and its destructor *)

\* How the visit of one card ends: snd_mixer_open fails, or returns 0 without
\* a handle, or snd_mixer_attach, snd_mixer_selem_register or snd_mixer_load
\* fails, or all four succeed.
Results ==
    {"openFail", "openNull", "attachFail", "registerFail", "loadFail",
     "loaded"}

\* A mixer element as the enumeration sees it; the constructor does not ask
\* an inactive element for its playback volume.
RegElems ==
    {e \in [active : BOOLEAN, hasPlaybackVolume : BOOLEAN] :
        e.hasPlaybackVolume => e.active}

RECURSIVE SeqsUpTo(_, _)
SeqsUpTo(S, n) ==
    IF n = 0 THEN {<< >>}
    ELSE LET shorter == SeqsUpTo(S, n - 1)
         IN  shorter \cup {Append(q, x) : q \in shorter, x \in S}

ElemSeqs == SeqsUpTo(RegElems, MaxElems)

\* The elements of a card: any enumeration for a card that loads, at most
\* one element for a card that does not (its elements are never looked at).
ElemSeqsOf(result) ==
    IF result = "loaded" THEN ElemSeqs ELSE {q \in ElemSeqs : Len(q) <= 1}

Cards == 0 .. MaxCards - 1

\* Mutant of ClosedInCtor: only a failed attach closes the handle.
ClosedInCtor_AttachOnly(result) == result = "attachFail"

\* The handle of the card is closed inside the constructor: the else branch
\* of "attached && register == 0 && load == 0", reached with a handle.
ClosedInCtor(result) == result \in {"attachFail", "registerFail", "loadFail"}

\* The AMVolume objects the element loop of the constructor appends for card
\* c, each named by its card and the position of its element.
RECURSIVE ElemLoop(_, _, _)
ElemLoop(c, elems, i) ==
    IF i > Len(elems) THEN << >>
    ELSE IF ~elems[i].active THEN ElemLoop(c, elems, i + 1)
    ELSE IF ~elems[i].hasPlaybackVolume THEN ElemLoop(c, elems, i + 1)
    ELSE <<[card |-> c, elem |-> i]>> \o ElemLoop(c, elems, i + 1)

\* Mutant of VisitChannels: the element loop runs whatever the result.
VisitChannels_Always(c, result, elems) == ElemLoop(c, elems, 1)

\* What one visit appends to channelsList
VisitChannels(c, result, elems) ==
    IF result = "loaded" THEN ElemLoop(c, elems, 1) ELSE << >>

\* snd_card_next(&card): the next card index, -1 after the last one
NextCard(c, n) == IF c + 1 < n THEN c + 1 ELSE -1

InitReg ==
    /\ ctl = << >>
    /\ vol = << >>
    /\ hw = [ch \in Chan |-> 0]
    /\ readOk = [ch \in Chan |-> TRUE]
    /\ last = NoOp
    /\ pc = "start"
    /\ card = -1
    /\ numCards \in 0 .. MaxCards
    /\ outcome = << >>
    /\ mixers = << >>
    /\ channelsList = << >>
    /\ closes = [c \in Cards |-> 0]

\* AMixer::AMixer up to the loop: the first snd_card_next
CtorBegin(nextOk) ==
    /\ pc = "start"
    /\ IF nextOk
       THEN /\ card' = NextCard(card, numCards)
            /\ pc' = IF card' >= 0 THEN "loop" ELSE "constructed"
       ELSE /\ card' = card
            /\ pc' = "constructed"
    /\ UNCHANGED <<numCards, outcome, mixers, channelsList, closes>>
    /\ UNCHANGED ctlVars

\* One iteration of the while loop of AMixer::AMixer
CtorVisit(result, elems, nextOk) ==
    /\ pc = "loop"
    /\ card >= 0
    /\ mixers' = IF result = "loaded" THEN Append(mixers, card) ELSE mixers
    /\ channelsList' = channelsList \o VisitChannels(card, result, elems)
    /\ closes' = IF ClosedInCtor(result)
                 THEN [closes EXCEPT ![card] = @ + 1] ELSE closes
    /\ outcome' = Append(outcome,
                         [result |-> result,
                          elems |-> IF result = "loaded" THEN elems
                                    ELSE << >>,
                          next |-> nextOk])
    /\ IF nextOk
       THEN /\ card' = NextCard(card, numCards)
            /\ pc' = IF card' >= 0 THEN "loop" ELSE "constructed"
       ELSE /\ card' = card
            /\ pc' = "constructed"
    /\ UNCHANGED numCards
    /\ UNCHANGED ctlVars

\* The handles the destructor closes: every entry of mixers
DtorCloses(ms) == {ms[i] : i \in 1 .. Len(ms)}

\* AMixer::~AMixer
Dtor ==
    /\ pc = "constructed"
    /\ closes' = [c \in Cards |->
                    IF c \in DtorCloses(mixers) THEN closes[c] + 1
                    ELSE closes[c]]
    /\ mixers' = << >>
    /\ pc' = "destroyed"
    /\ UNCHANGED <<card, numCards, outcome, channelsList>>
    /\ UNCHANGED ctlVars

NextReg ==
    \/ \E nextOk \in BOOLEAN : CtorBegin(nextOk)
    \/ \E result \in Results, nextOk \in BOOLEAN :
          \E elems \in ElemSeqsOf(result) : CtorVisit(result, elems, nextOk)
    \/ Dtor

SpecReg == InitReg /\ [][NextReg]_vars

----------------------------------------------------------------------------
(* Claims about one VolumeController (SpecCtl) *)

\* A Decibel or Linear controller that translates: element present and a
\* cached range > 0
Translates(c) == c.kind \in {"Db", "Linear"} /\ ~c.null /\ c.range > 0

\* setVolume(p) with p in 0..100 has just acted on a translating controller
\* whose channel reads succeed
RoundTripCase ==
    /\ last.op = "setVolume"
    /\ last.arg \in 0 .. PctMax
    /\ Translates(ctl)
    /\ readOk[ctl.channel]

\* C1 as stated: for every p in 0..100 and every Decibel or Linear controller
\* with range > 0, getVolume() right after setVolume(p) is within 1 of p.
C1_RoundTripAnyRange ==
    RoundTripCase => Abs(CtlGetVolume(ctl, hw, readOk) - last.arg) <= 1

\* C1 amended: the same, for controllers whose cached range is at least 34
\* (below that a native step is more than 3 percent wide).
C1_RoundTripWideRange ==
    (RoundTripCase /\ ctl.range >= 34)
        => Abs(CtlGetVolume(ctl, hw, readOk) - last.arg) <= 1

\* setVolume(p) on a range of 34 or more read back one off p
C1_Witness ==
    /\ RoundTripCase
    /\ ctl.range >= 34
    /\ Abs(CtlGetVolume(ctl, hw, readOk) - last.arg) = 1

\* Unsupported, or Decibel/Linear with nothing to translate
ActsUnsupported(c) == c.kind = "Dummy" \/ c.null \/ c.range <= 0

\* C6: an Unsupported controller, or a Decibel/Linear one with cached range
\* <= 0, writes nothing on setVolume(p) and returns 0 from getVolume(), for
\* every p and every hardware value.
C6_UnsupportedIsInert ==
    ActsUnsupported(ctl) =>
        /\ last.written = {}
        /\ last.op = "getVolume" => last.ret = 0
        /\ CtlGetVolume(ctl, hw, readOk) = 0

\* setVolume(50) has acted on a Decibel controller whose query succeeded
\* with max <= min, the hardware holding a value that reads fine
C6_Witness ==
    /\ ctl.kind = "Db" /\ ~ctl.null /\ ctl.range <= 0 /\ ctl.max # 0
    /\ last.op = "setVolume" /\ last.arg = 50
    /\ readOk[ctl.channel]

----------------------------------------------------------------------------
(* Claims about VolumeController::create (SpecCreate) *)

\* The dB range query of element e succeeds with max > min
DbUsable(e) == ~e.null /\ e.dbOk /\ e.dbMax > e.dbMin

\* The volume range query of element e succeeds with max > min
LinearUsable(e) == ~e.null /\ e.volOk /\ e.volMax > e.volMin

\* C12: create returns the dB controller whenever the dB range query
\* succeeds with max > min, otherwise the linear controller whenever the
\* volume range query succeeds with max > min, otherwise the dummy (also for
\* a null element), whatever the two queries answer; it never returns the
\* linear controller for an element whose dB range is usable.  The
\* controller caches the range the choice was made on.
C12_CreatePrefersDb ==
    last.op = "create" =>
        LET e == last.arg
        IN  /\ ctl.kind \in {"Db", "Linear", "Dummy"}
            /\ DbUsable(e) <=> ctl.kind = "Db"
            /\ (~DbUsable(e) /\ LinearUsable(e)) <=> ctl.kind = "Linear"
            /\ (~DbUsable(e) /\ ~LinearUsable(e)) <=> ctl.kind = "Dummy"
            /\ e.null => ctl.kind = "Dummy"
            /\ ctl.kind = "Linear" => ~DbUsable(e)
            /\ ctl.kind = "Db" =>
                  /\ ctl.min = e.dbMin /\ ctl.max = e.dbMax
                  /\ ctl.range = e.dbMax - e.dbMin /\ ctl.range > 0
            /\ ctl.kind = "Linear" =>
                  /\ ctl.min = e.volMin /\ ctl.max = e.volMax
                  /\ ctl.range = e.volMax - e.volMin /\ ctl.range > 0
            /\ ctl.kind = "Dummy" => ctl.range = 0

\* create has returned the dB controller for an element both of whose
\* ranges are usable
C12_Witness ==
    /\ last.op = "create"
    /\ DbUsable(last.arg) /\ LinearUsable(last.arg)
    /\ ctl.kind = "Db"

----------------------------------------------------------------------------
(* Claims about one AMVolume (SpecChan) *)

Stereo(v) == v.hasLeft /\ v.hasRight

\* Left and right controllers translate and the reads of both succeed
StereoWorks ==
    /\ Stereo(vol)
    /\ Translates(vol.leftVolumeController)
    /\ Translates(vol.rightVolumeController)
    /\ readOk["FRONT_LEFT"] /\ readOk["FRONT_RIGHT"]

\* C2 as stated: on a stereo AMVolume, setVolume(v) called twice in a row
\* leaves the left and right hardware values as they were after the first
\* call (stated for the case that favours it most: translating controllers
\* whose reads all succeed).
C2_SetVolumeTwice ==
    [][(/\ StereoWorks /\ readOk["MONO"]
        /\ last.op = "setVolume"
        /\ last'.op = "setVolume"
        /\ last'.arg = last.arg)
          => /\ hw'["FRONT_LEFT"] = hw["FRONT_LEFT"]
             /\ hw'["FRONT_RIGHT"] = hw["FRONT_RIGHT"]]_vars

\* C3 as stated: on an AMVolume that is not stereo, getVolume() returns what
\* the mono controller's getVolume() returns, whatever the hardware holds
\* for the left and right channels (stated for reads that all succeed).
C3_MonoVolumeIsMonoController ==
    (~Stereo(vol) /\ last.op = "getVolume" /\ \A ch \in Chan : readOk[ch])
        => last.ret = CtlGetVolume(vol.monoVolumeController, hw, readOk)

\* C4: on a stereo AMVolume whose getBalance() is 0 before the call,
\* getBalance() is 0 after setVolume(v); left and right reads succeed.
C4_SetVolumeKeepsCentre ==
    [][(/\ Stereo(vol)
        /\ readOk["FRONT_LEFT"] /\ readOk["FRONT_RIGHT"]
        /\ last'.op = "setVolume"
        /\ AMVolume_getBalance(vol, hw, readOk) = 0)
          => AMVolume_getBalance(vol, hw', readOk) = 0]_vars

\* setVolume(50) has moved both sides of a centred stereo element
C4_Witness ==
    /\ StereoWorks
    /\ last.op = "setVolume" /\ last.arg = 50
    /\ last.passed["FRONT_LEFT"] = <<50>>
    /\ last.passed["FRONT_RIGHT"] = <<50>>
    /\ last.written = {"FRONT_LEFT", "FRONT_RIGHT"}
    /\ AMVolume_getBalance(vol, hw, readOk) = 0
    /\ AMVolume_getVolume(vol, hw, readOk) = 50

\* C5 as stated: setBalance(b) on a stereo AMVolume, V being getVolume()
\* before the call, calls the left controller with V and the right one with
\* round(V * (100 - |b|) / 100) for b < 0, mirrored for b > 0, both with V
\* for b = 0; after setBalance(-100) the right controller reads 0 (stated
\* for translating controllers whose reads all succeed).
C5_SetBalanceLevels ==
    [][(StereoWorks /\ readOk["MONO"] /\ last'.op = "setBalance")
          => LET V == AMVolume_getVolume(vol, hw, readOk)
                 b == Clamp(last'.arg, -BalMax, BalMax)
                 quiet == RoundHalfAway(V * (100 - Abs(b)), 100)
             IN  /\ b < 0 => last'.passed = Calls(<<V>>, <<quiet>>, << >>)
                 /\ b > 0 => last'.passed = Calls(<<quiet>>, <<V>>, << >>)
                 /\ b = 0 => last'.passed = Calls(<<V>>, <<V>>, << >>)
                 /\ b = -BalMax =>
                      CtlGetVolume(vol.rightVolumeController, hw', readOk) = 0
      ]_vars

\* C7: setVolume(v) with v > 100 leaves the hardware as setVolume(100) does
\* and with v < 0 as setVolume(0) does; setBalance(b) with b > 100 leaves it
\* as setBalance(100) does and with b < -100 as setBalance(-100) does.
C7_ArgumentsClamp ==
    [][/\ (last'.op = "setVolume" /\ last'.arg > 100) =>
            hw' = AfterCalls(vol, hw, AMVolume_setVolume(vol, hw, readOk, 100))
       /\ (last'.op = "setVolume" /\ last'.arg < 0) =>
            hw' = AfterCalls(vol, hw, AMVolume_setVolume(vol, hw, readOk, 0))
       /\ (last'.op = "setBalance" /\ last'.arg > 100) =>
            hw' = AfterCalls(vol, hw,
                             AMVolume_setBalance(vol, hw, readOk, 100))
       /\ (last'.op = "setBalance" /\ last'.arg < -100) =>
            hw' = AfterCalls(vol, hw,
                             AMVolume_setBalance(vol, hw, readOk, -100))
      ]_vars

\* setVolume(150) has acted on an off-centre stereo element: one side was
\* called with 100, the other with less
C7_Witness ==
    /\ StereoWorks
    /\ last.op = "setVolume" /\ last.arg = 150
    /\ last.passed["FRONT_LEFT"] = <<100>>
    /\ last.passed["FRONT_RIGHT"] # <<100>>
    /\ last.written = {"FRONT_LEFT", "FRONT_RIGHT"}

\* C10: on a stereo AMVolume whose left and right controllers translate and
\* read, getVolume() after setBalance(b) equals getVolume() before it.
C10_SetBalanceKeepsVolume ==
    [][(StereoWorks /\ last'.op = "setBalance")
          => AMVolume_getVolume(vol, hw', readOk)
               = AMVolume_getVolume(vol, hw, readOk)]_vars

\* setBalance(-43) has made the right side quieter than the left
C10_Witness ==
    /\ StereoWorks
    /\ last.op = "setBalance" /\ last.arg = -43
    /\ last.written = {"FRONT_LEFT", "FRONT_RIGHT"}
    /\ AMVolume_getBalance(vol, hw, readOk) < 0
    /\ AMVolume_getVolume(vol, hw, readOk) > 50

----------------------------------------------------------------------------
(* Claims about AMixer (SpecReg) *)

\* The entries the devices visited so far must have given: those of the
\* loaded devices only, card by card, elements in enumeration order.
RECURSIVE ExpectedChannels(_, _)
ExpectedChannels(o, k) ==
    IF k = 0 THEN << >>
    ELSE ExpectedChannels(o, k - 1) \o
         (IF o[k].result = "loaded"
          THEN SelectSeq([i \in 1 .. Len(o[k].elems) |->
                            [card |-> k - 1, elem |-> i]],
                         LAMBDA e : /\ o[k].elems[e.elem].active
                                    /\ o[k].elems[e.elem].hasPlaybackVolume)
          ELSE << >>)

\* C8: a device whose open, attach, register or load fails contributes no
\* entry to channels(); the constructor goes on to the next card (it stops
\* early only when snd_card_next fails); the channels of the devices that
\* load are in channels() in discovery order.
C8_FailSoftConstruction ==
    /\ channelsList = ExpectedChannels(outcome, Len(outcome))
    /\ (pc # "loop" /\ outcome # << >> /\ Len(outcome) < numCards)
          => ~outcome[Len(outcome)].next
    /\ pc = "loop" => card = Len(outcome)

\* Construction is complete: the first card failed to attach and the second
\* one loaded and gave two channels
C8_Witness ==
    /\ pc = "constructed"
    /\ Len(outcome) = 2
    /\ outcome[1].result = "attachFail"
    /\ outcome[2].result = "loaded"
    /\ Len(channelsList) = 2
    /\ channelsList[1].card = 1

\* C9: every handle the constructor opens is closed exactly once: in the
\* constructor when attach, register or load fails, otherwise by the
\* destructor and not before; none is closed twice, none is left open after
\* destruction.
C9_HandlesClosedOnce ==
    \A c \in Cards :
        IF c + 1 > Len(outcome) THEN closes[c] = 0
        ELSE LET r == outcome[c + 1].result
             IN  /\ r \in {"openFail", "openNull"} => closes[c] = 0
                 /\ r \in {"attachFail", "registerFail", "loadFail"}
                       => closes[c] = 1
                 /\ r = "loaded"
                       => closes[c] = IF pc = "destroyed" THEN 1 ELSE 0

\* Destroyed after a card whose register step failed and a card that loaded
C9_Witness ==
    /\ pc = "destroyed"
    /\ Len(outcome) = 2
    /\ outcome[1].result = "registerFail"
    /\ outcome[2].result = "loaded"
    /\ closes[0] = 1 /\ closes[1] = 1

====
